---- MODULE Spec2Model ----
(***************************************************************************)
(* tuningtron: the model family registry (models.py) and the training      *)
(* configuration builder (tuner.py).                                       *)
(*                                                                         *)
(* Python strings are TLA+ strings (Len, SubSeq and \o work on them).      *)
(* Python None and a not yet assigned attribute or local are the empty     *)
(* sequence <<>>, a present value v is <<v>>.  Floats that the code only   *)
(* passes through (0.1, 1e-5, ...) are kept as their literals in strings.  *)
(* An exception is the name of its class in a string.                      *)
(***************************************************************************)
EXTENDS Integers, Sequences, FiniteSets, TLC

VARIABLES
    cuda_available,    \* torch.cuda.is_available()
    capability,        \* torch.cuda.get_device_capability()[0]
    visible_devices,   \* os.environ.get("CUDA_VISIBLE_DEVICES"): <<>> when not set
    pc,                \* "new", "ready", "returned" or "failed"
    raised,            \* the exception the last call let out, "none" without one
    reached,           \* the steps of Tuner.__init__ that were entered
    model_type,        \* config.model_type of the base model, <<>> before construction
    enable_deepspeed,  \* the constructor's argument
    model_config,      \* the strategy object's class, <<>> when none was built
    tuner,             \* the attributes of the Tuner object
    call,              \* the arguments of the last method call
    chat,              \* what prepare_chat_template returned in get_instruction
    lr_scheduler_type, \* the local of sft, which dpo passes as a literal
    data_collator,     \* the collator sft built
    args,              \* what prepare_args returned
    lora_config,       \* the LoraConfig that get_lora_config built
    trainer            \* the calls made on the external trainer, in order

vars == <<cuda_available, capability, visible_devices, pc, raised, reached,
          model_type, enable_deepspeed, model_config, tuner, call, chat,
          lr_scheduler_type, data_collator, args, lora_config, trainer>>

env == <<cuda_available, capability, visible_devices>>

None == <<>>

Some(v) == <<v>>

(***************************************************************************)
(* Bounds and the sets the inputs are drawn from.                          *)
(***************************************************************************)
MaxRows == 1

\* config.model_type values: members of the three families, and identifiers
\* that start with none of the prefixes (a proper prefix of one, one that
\* holds a prefix further in, another capitalisation, the empty string).
ModelTypes ==
    {"gemma", "gemma3_text", "cohere2", "qwen2",
     "llama", "gemm", "xqwen", "Cohere", ""}

\* Contents of the fields the chat templates read, with and without
\* surrounding whitespace.
Texts == {" a\n", "bc"}

\* The column layouts of a dataset: instruction records, pre-formatted text,
\* both, and preference pairs.
Layouts ==
    {{"instruct", "input", "output"},
     {"text"},
     {"instruct", "input", "output", "text"},
     {"prompt", "chosen", "rejected"}}

\* The code reads the contents of instruct, input and output only; the other
\* columns hold one sample value.
Rows(cols) ==
    {row \in [cols -> Texts \cup {"t"}] :
        \A col \in cols : row[col] = "t" <=> col \notin {"instruct", "input", "output"}}

Records == UNION {Rows(cols) : cols \in Layouts}

\* A dataset is a non-empty sequence of rows over one layout.
Datasets ==
    UNION {UNION {[1..n -> Rows(cols)] : n \in 1..MaxRows} : cols \in Layouts}

Percentiles == {50, 100}

Dropouts == {"0.1", "0.2"}

Alphas == {None, Some(16)}

(***************************************************************************)
(* str.startswith and str.strip                                            *)
(***************************************************************************)
startswith(s, prefix) ==
    /\ Len(s) >= Len(prefix)
    /\ SubSeq(s, 1, Len(prefix)) = prefix

Whitespace == {" ", "\n", "\t"}

RECURSIVE lstrip(_)
lstrip(s) ==
    IF Len(s) > 0 /\ SubSeq(s, 1, 1) \in Whitespace
    THEN lstrip(SubSeq(s, 2, Len(s)))
    ELSE s

RECURSIVE rstrip(_)
rstrip(s) ==
    IF Len(s) > 0 /\ SubSeq(s, Len(s), Len(s)) \in Whitespace
    THEN rstrip(SubSeq(s, 1, Len(s) - 1))
    ELSE s

strip(s) == rstrip(lstrip(s))

(***************************************************************************)
(* models.py: the family strategies and the registry                       *)
(***************************************************************************)
Turn(role, content) == [role |-> role, content |-> content]

\* record[key] of every key the template reads; a missing one is a KeyError.
HasFields(record) == {"instruct", "input", "output"} \subseteq DOMAIN record

\* A Gemma template that keeps the instruction in a system turn.
GemmaModel_with_system_turn(record) ==
    <<Turn("system", strip(record["instruct"])),
      Turn("user", strip(record["input"])),
      Turn("assistant", strip(record["output"]))>>

GemmaModel_prepare_chat_template(record) ==
    <<Turn("user", strip(record["instruct"]) \o "\n\n\n" \o strip(record["input"])),
      Turn("assistant", strip(record["output"]))>>

CohereModel_prepare_chat_template(record) ==
    <<Turn("system", strip(record["instruct"])),
      Turn("user", strip(record["input"])),
      Turn("assistant", strip(record["output"]))>>

QwenModel_prepare_chat_template(record) ==
    <<Turn("system", strip(record["instruct"])),
      Turn("user", strip(record["input"])),
      Turn("assistant", strip(record["output"]))>>

\* The dispatch on the strategy's class.  <<>> stands for the KeyError that
\* the subscript of a missing field raises.
prepare_chat_template(class, record) ==
    IF ~HasFields(record) THEN None
    ELSE CASE class = "GemmaModel" -> Some(GemmaModel_prepare_chat_template(record))
           [] class = "CohereModel" -> Some(CohereModel_prepare_chat_template(record))
           [] class = "QwenModel" -> Some(QwenModel_prepare_chat_template(record))

\* The tokenizer is an external component.  Of the text that
\* BaseModel.apply_chat_template gets from it, sft uses the number of
\* input_ids only, taken here to be one token per turn (its role marker) and
\* one per character of its content.
RECURSIVE TokenCount(_)
TokenCount(turns) ==
    IF turns = <<>> THEN 0
    ELSE 1 + Len(Head(turns).content) + TokenCount(Tail(turns))

\* A registry that falls back to a default strategy instead of raising.
get_model_config_with_default(mt) ==
    IF startswith(mt, "gemma") THEN Some("GemmaModel")
    ELSE IF startswith(mt, "cohere") THEN Some("CohereModel")
    ELSE Some("QwenModel")

\* ModelsFactory.get_model_config: the class of the strategy it returns, or
\* <<>> when it raises Exception("Unsupported model type: ...").
get_model_config(mt) ==
    IF startswith(mt, "gemma") THEN Some("GemmaModel")
    ELSE IF startswith(mt, "cohere") THEN Some("CohereModel")
    ELSE IF startswith(mt, "qwen") THEN Some("QwenModel")
    ELSE None

\* The attributes a strategy object has: BaseModel.__init__ sets these four
\* and no subclass adds one.
StrategyAttributes == {"base_model_id", "config", "tokenizer", "target_modules"}

target_modules ==
    <<"q_proj", "k_proj", "v_proj", "o_proj", "gate_proj", "up_proj", "down_proj", "lm_head">>

(***************************************************************************)
(* tuner.py: Tuner.__init__                                                *)
(***************************************************************************)
get_deepspeed_config ==
    [zero_force_ds_cpu_optimizer |-> FALSE,
     bf16 |-> [enabled |-> "auto"],
     zero_optimization |->
        [stage |-> 3,
         offload_optimizer |-> [device |-> "cpu"],
         offload_param |-> [device |-> "cpu"],
         overlap_comm |-> TRUE,
         sub_group_size |-> "1e9",
         reduce_bucket_size |-> "auto",
         stage3_prefetch_bucket_size |-> "auto",
         stage3_param_persistence_threshold |-> "auto",
         gather_16bit_weights_on_model_save |-> TRUE],
     gradient_accumulation_steps |-> "auto",
     gradient_clipping |-> "auto",
     steps_per_print |-> "auto",
     train_batch_size |-> "auto",
     train_micro_batch_size_per_gpu |-> "auto"]

\* The deepspeed branch taken without the test for an accelerator.
Offload_without_cuda_test(cuda, ds) ==
    IF ds
    THEN [device_map |-> None, deepspeed |-> Some(get_deepspeed_config), optim |-> "adamw_torch"]
    ELSE [device_map |-> Some("auto"), deepspeed |-> None, optim |-> "adamw_8bit"]

\* The deepspeed branch without its assignment to optim.
Offload_keeping_optim(cuda, ds) ==
    IF cuda /\ ds
    THEN [device_map |-> None, deepspeed |-> Some(get_deepspeed_config), optim |-> "adamw_8bit"]
    ELSE [device_map |-> Some("auto"), deepspeed |-> None, optim |-> "adamw_8bit"]

\* device_map, deepspeed and optim: the defaults, and what the
\* enable_deepspeed branch under torch.cuda.is_available() sets.
Offload(cuda, ds) ==
    IF cuda /\ ds
    THEN [device_map |-> None, deepspeed |-> Some(get_deepspeed_config), optim |-> "adamw_torch"]
    ELSE [device_map |-> Some("auto"), deepspeed |-> None, optim |-> "adamw_8bit"]

\* The capability test as > 8 in place of >= 8.
Precision_above_8(cuda, cap) ==
    IF cuda
    THEN IF cap > 8 THEN [bf16 |-> TRUE, fp16 |-> FALSE]
                    ELSE [bf16 |-> FALSE, fp16 |-> TRUE]
    ELSE [bf16 |-> TRUE, fp16 |-> FALSE]

\* bf16 and fp16: the defaults, and what the capability branch sets.
Precision(cuda, cap) ==
    IF cuda
    THEN IF cap >= 8 THEN [bf16 |-> TRUE, fp16 |-> FALSE]
                     ELSE [bf16 |-> FALSE, fp16 |-> TRUE]
    ELSE [bf16 |-> TRUE, fp16 |-> FALSE]

\* The family test as an equality in place of startswith.
Attention_exact_match(cuda, cap, mt) ==
    IF cuda /\ cap >= 8
    THEN IF mt = "gemma" THEN Some("eager") ELSE Some("flash_attention_2")
    ELSE None

\* attn_implementation: the default, and what the capability branch sets.
Attention(cuda, cap, mt) ==
    IF cuda /\ cap >= 8
    THEN IF startswith(mt, "gemma") THEN Some("eager") ELSE Some("flash_attention_2")
    ELSE None

\* The attributes of a Tuner after __init__; max_len, eval_strategy,
\* eval_steps and base_model are assigned by later calls.
TunerAttributes(cuda, cap, mt, ds) ==
    [device_map |-> Offload(cuda, ds).device_map,
     deepspeed |-> Offload(cuda, ds).deepspeed,
     optim |-> Offload(cuda, ds).optim,
     bf16 |-> Precision(cuda, cap).bf16,
     fp16 |-> Precision(cuda, cap).fp16,
     attn_implementation |-> Attention(cuda, cap, mt),
     max_len |-> None,
     eval_strategy |-> None,
     eval_steps |-> None,
     base_model |-> None]

NoTuner ==
    [device_map |-> None, deepspeed |-> None, optim |-> "", bf16 |-> FALSE,
     fp16 |-> FALSE, attn_implementation |-> None, max_len |-> None,
     eval_strategy |-> None, eval_steps |-> None, base_model |-> None]

NoCall ==
    [op |-> "none", columns |-> {}, rows |-> 0, do_eval |-> FALSE,
     max_len_percentile |-> 0, rank |-> 0, lora_alpha |-> None,
     lora_dropout |-> "", comp_only |-> FALSE, record |-> None]

NoResults ==
    /\ call' = NoCall
    /\ chat' = None
    /\ lr_scheduler_type' = None
    /\ data_collator' = None
    /\ args' = None
    /\ lora_config' = None
    /\ trainer' = <<>>

Capabilities == {7, 8}

Init ==
    /\ cuda_available \in BOOLEAN
    /\ capability \in (IF cuda_available THEN Capabilities ELSE {0})
    /\ visible_devices \in {None, Some("0")}
    /\ pc = "new"
    /\ raised = "none"
    /\ reached = {}
    /\ model_type = None
    /\ enable_deepspeed = None
    /\ model_config = None
    /\ tuner = NoTuner
    /\ call = NoCall
    /\ chat = None
    /\ lr_scheduler_type = None
    /\ data_collator = None
    /\ args = None
    /\ lora_config = None
    /\ trainer = <<>>

\* Tuner(base_model_id, enable_deepspeed), mt being the model_type of the
\* configuration that base_model_id resolves to.
Construct(mt, ds) ==
    /\ pc = "new"
    /\ model_type' = Some(mt)
    /\ enable_deepspeed' = Some(ds)
    /\ IF visible_devices = None
       THEN \* print_cuda_info: os.environ['CUDA_VISIBLE_DEVICES'] raises
            /\ raised' = "KeyError"
            /\ reached' = {"print_cuda_info"}
            /\ pc' = "failed"
            /\ UNCHANGED <<model_config, tuner>>
       ELSE IF get_model_config(mt) = None
       THEN /\ raised' = "Exception: Unsupported model type"
            /\ reached' = {"print_cuda_info", "get_model_config"}
            /\ pc' = "failed"
            /\ UNCHANGED <<model_config, tuner>>
       ELSE /\ raised' = "none"
            /\ reached' = {"print_cuda_info", "get_model_config", "hyperparameters"}
            /\ pc' = "ready"
            /\ model_config' = get_model_config(mt)
            /\ tuner' = TunerAttributes(cuda_available, capability, mt, ds)
    /\ UNCHANGED <<env, call, chat, lr_scheduler_type, data_collator, args,
                   lora_config, trainer>>

(***************************************************************************)
(* tuner.py: the helpers of sft and dpo                                    *)
(***************************************************************************)
RECURSIVE Insert(_, _)
Insert(x, sorted) ==
    IF sorted = <<>> THEN <<x>>
    ELSE IF x <= Head(sorted) THEN <<x>> \o sorted
    ELSE <<Head(sorted)>> \o Insert(x, Tail(sorted))

RECURSIVE Sort(_)
Sort(xs) == IF xs = <<>> THEN <<>> ELSE Insert(Head(xs), Sort(Tail(xs)))

\* int(np.percentile(xs, q)) for non-negative integers xs: the linear
\* interpolation between the two closest ranks, truncated.
percentile(xs, q) ==
    LET sorted == Sort(xs)
        pos == q * (Len(xs) - 1)
        lo == (pos \div 100) + 1
        hi == IF lo < Len(xs) THEN lo + 1 ELSE lo
    IN  sorted[lo] + (((sorted[hi] - sorted[lo]) * (pos % 100)) \div 100)

\* Tuner.prepare_datasets: the attributes it assigns.  The split itself is
\* the dataset library's.
prepare_datasets(self, do_eval) ==
    IF do_eval
    THEN [self EXCEPT !.eval_strategy = Some("steps"), !.eval_steps = Some("0.1")]
    ELSE [self EXCEPT !.eval_strategy = Some("no"), !.eval_steps = None]

prepare_args(self, num_train_epochs, learning_rate, batch_size, gradient_steps, scheduler) ==
    [output_dir |-> ".",
     num_train_epochs |-> num_train_epochs,
     logging_steps |-> 1,
     eval_strategy |-> self.eval_strategy,
     eval_steps |-> self.eval_steps,
     gradient_checkpointing |-> TRUE,
     save_strategy |-> "no",
     bf16 |-> self.bf16,
     fp16 |-> self.fp16,
     optim |-> self.optim,
     weight_decay |-> "0.001",
     learning_rate |-> learning_rate,
     lr_scheduler_type |-> scheduler,
     per_device_train_batch_size |-> batch_size,
     per_device_eval_batch_size |-> batch_size,
     gradient_accumulation_steps |-> gradient_steps,
     eval_accumulation_steps |-> 1,
     deepspeed |-> self.deepspeed]

\* Tuner.get_lora_config(rank, lora_alpha): these are its only parameters.
get_lora_config(rank, lora_alpha) ==
    [r |-> rank,
     lora_alpha |-> IF lora_alpha # None /\ lora_alpha # Some(0) THEN lora_alpha[1] ELSE rank,
     target_modules |-> target_modules,
     lora_dropout |-> "0.1",
     task_type |-> "CAUSAL_LM"]

\* Tuner.load_base_model(): what it asks of from_pretrained, kept in
\* self.base_model.
load_base_model(self) ==
    [self EXCEPT !.base_model =
        Some([torch_dtype |-> "bfloat16",
              attn_implementation |-> self.attn_implementation,
              device_map |-> self.device_map,
              gradient_checkpointing |-> TRUE])]

\* The defaults of the keyword parameters that sft and dpo only pass on.
Defaults ==
    [rank |-> 32, num_train_epochs |-> 1, batch_size |-> 4, gradient_steps |-> 2,
     learning_rate |-> "1e-5"]

(***************************************************************************)
(* tuner.py: Tuner.sft, Tuner.dpo and Tuner.get_instruction                *)
(***************************************************************************)
Outcome(exc, self, scheduler, collator, a, lora, calls) ==
    [raised |-> exc, self |-> self, lr_scheduler_type |-> scheduler,
     data_collator |-> collator, args |-> a, lora_config |-> lora, trainer |-> calls]

\* The body of sft from the collator on: lr_scheduler_type is the local as
\* the two column tests left it.
sft_train(self, c, scheduler) ==
    IF c.comp_only /\ "response_template" \notin StrategyAttributes
    THEN \* self.model_config.response_template
         Outcome("AttributeError", self, scheduler, None, None, None, <<>>)
    ELSE
    LET collator == IF c.comp_only THEN "DataCollatorForCompletionOnlyLM"
                                   ELSE "DataCollatorForLanguageModeling"
        split == prepare_datasets(self, c.do_eval)
    IN  IF scheduler = None
        THEN \* the local is read before any assignment
             Outcome("UnboundLocalError", split, scheduler, Some(collator), None, None, <<>>)
        ELSE Outcome("none", load_base_model(split), scheduler, Some(collator),
                     Some(prepare_args(split, Defaults.num_train_epochs, Defaults.learning_rate,
                                       Defaults.batch_size, Defaults.gradient_steps,
                                       scheduler[1])),
                     Some(get_lora_config(c.rank, c.lora_alpha)),
                     <<"Trainer", "train", "save_model">>)

\* The two tests on dataset.column_names, in order: the first removes the
\* text column, the second the three instruction columns; <<>> is the local
\* left unassigned.
scheduler_of(columns) ==
    LET after_text == IF "text" \in columns THEN columns \ {"text"} ELSE columns
        first == IF "text" \in columns THEN Some("constant") ELSE None
    IN  IF "instruct" \in after_text THEN Some("linear") ELSE first

\* len(input_ids) of every record of the dataset, in order.
RECURSIVE target_lengths(_, _)
target_lengths(class, dataset) ==
    IF dataset = <<>> THEN <<>>
    ELSE <<TokenCount(prepare_chat_template(class, Head(dataset))[1])>>
         \o target_lengths(class, Tail(dataset))

sft(self, class, dataset, c) ==
    IF \E i \in 1..Len(dataset) : ~HasFields(dataset[i])
    THEN \* get_instruction(record) of the first list comprehension
         Outcome("KeyError", self, None, None, None, None, <<>>)
    ELSE
    LET lengths == target_lengths(class, dataset)
        max_len == percentile(lengths, c.max_len_percentile)
        filtered == {i \in 1..Len(dataset) : lengths[i] <= max_len}
        columns == DOMAIN dataset[1] \cup {"input_ids", "attention_mask"}
    IN  IF filtered = {}
        THEN \* dataset["input_ids"][0]
             Outcome("IndexError", [self EXCEPT !.max_len = Some(max_len)],
                     None, None, None, None, <<>>)
        ELSE sft_train([self EXCEPT !.max_len = Some(max_len)], c, scheduler_of(columns))

dpo(self, c) ==
    LET split == prepare_datasets(self, c.do_eval)
    IN  Outcome("none", load_base_model(split), Some("linear"), None,
                Some(prepare_args(split, Defaults.num_train_epochs, Defaults.learning_rate,
                                  Defaults.batch_size, Defaults.gradient_steps, "linear")),
                Some(get_lora_config(c.rank, c.lora_alpha)),
                <<"DPOTrainer", "train", "save_model">>)

Returns(c, o) ==
    /\ pc' = "returned"
    /\ call' = c
    /\ raised' = o.raised
    /\ tuner' = o.self
    /\ lr_scheduler_type' = o.lr_scheduler_type
    /\ data_collator' = o.data_collator
    /\ args' = o.args
    /\ lora_config' = o.lora_config
    /\ trainer' = o.trainer
    /\ chat' = None
    /\ UNCHANGED <<env, reached, model_type, enable_deepspeed, model_config>>

Sft(dataset, do_eval, max_len_percentile, lora_alpha, lora_dropout, comp_only) ==
    /\ pc = "ready"
    /\ LET c == [op |-> "sft", columns |-> DOMAIN dataset[1], rows |-> Len(dataset),
                 do_eval |-> do_eval, max_len_percentile |-> max_len_percentile,
                 rank |-> Defaults.rank, lora_alpha |-> lora_alpha,
                 lora_dropout |-> lora_dropout, comp_only |-> comp_only,
                 record |-> None]
       IN  \E o \in {sft(tuner, model_config[1], dataset, c)} : Returns(c, o)

Dpo(dataset, do_eval, lora_alpha, lora_dropout) ==
    /\ pc = "ready"
    /\ LET c == [op |-> "dpo", columns |-> DOMAIN dataset[1], rows |-> Len(dataset),
                 do_eval |-> do_eval, max_len_percentile |-> 0,
                 rank |-> Defaults.rank, lora_alpha |-> lora_alpha,
                 lora_dropout |-> lora_dropout, comp_only |-> FALSE,
                 record |-> None]
       IN  \E o \in {dpo(tuner, c)} : Returns(c, o)

\* Tuner.get_instruction(record)
GetInstruction(record) ==
    /\ pc = "ready"
    /\ pc' = "returned"
    /\ call' = [NoCall EXCEPT !.op = "get_instruction", !.columns = DOMAIN record, !.rows = 1,
                             !.record = Some(record)]
    /\ chat' = prepare_chat_template(model_config[1], record)
    /\ raised' = IF HasFields(record) THEN "none" ELSE "KeyError"
    /\ UNCHANGED <<env, reached, model_type, enable_deepspeed, model_config, tuner,
                   lr_scheduler_type, data_collator, args, lora_config, trainer>>

\* The call has returned to its caller: its locals and results are gone, the
\* attributes of the Tuner stay.
NextCall ==
    /\ pc = "returned"
    /\ pc' = "ready"
    /\ raised' = "none"
    /\ NoResults
    /\ UNCHANGED <<env, reached, model_type, enable_deepspeed, model_config, tuner>>

Next ==
    \/ \E mt \in ModelTypes, ds \in BOOLEAN : Construct(mt, ds)
    \/ \E dataset \in Datasets, do_eval \in BOOLEAN, q \in Percentiles,
          alpha \in Alphas, dropout \in Dropouts, comp_only \in BOOLEAN :
            Sft(dataset, do_eval, q, alpha, dropout, comp_only)
    \/ \E dataset \in Datasets, do_eval \in BOOLEAN, alpha \in Alphas, dropout \in Dropouts :
            Dpo(dataset, do_eval, alpha, dropout)
    \/ \E record \in Records : GetInstruction(record)
    \/ NextCall

Spec == Init /\ [][Next]_vars

(***************************************************************************)
(* The properties                                                          *)
(***************************************************************************)
KnownPrefixes == {"gemma", "cohere", "qwen"}

KnownFamily(mt) == \E prefix \in KnownPrefixes : startswith(mt, prefix)

Constructed == pc \in {"ready", "returned"}

RECURSIVE Roles(_)
Roles(turns) ==
    IF turns = <<>> THEN <<>> ELSE <<Head(turns).role>> \o Roles(Tail(turns))

\* The class and the roles of the family that a model type belongs to.
FamilyClass(mt) ==
    CASE startswith(mt, "gemma") -> "GemmaModel"
      [] startswith(mt, "cohere") -> "CohereModel"
      [] startswith(mt, "qwen") -> "QwenModel"

FamilyRoles(mt) ==
    CASE startswith(mt, "gemma") -> <<"user", "assistant">>
      [] startswith(mt, "cohere") -> <<"system", "user", "assistant">>
      [] startswith(mt, "qwen") -> <<"system", "user", "assistant">>

\* C1: once the constructor got to the registry with a model type that starts
\* with a known prefix, the strategy is that family's, and every prompt that
\* prepare_chat_template produces has that family's roles in order, with
\* the stripped instruction and input joined in the user turn for gemma.
C1_FamilyStrategyAndRoles ==
    (pc # "new" /\ visible_devices # None /\ KnownFamily(model_type[1])) =>
        /\ model_config = Some(FamilyClass(model_type[1]))
        /\ chat # None =>
            /\ Roles(chat[1]) = FamilyRoles(model_type[1])
            /\ startswith(model_type[1], "gemma") =>
                chat[1][1].content =
                    strip(call.record[1]["instruct"]) \o "\n\n\n"
                        \o strip(call.record[1]["input"])

C1_Witness ==
    /\ pc = "returned"
    /\ call.op = "get_instruction"
    /\ model_type = Some("gemma3_text")
    /\ chat # None
    /\ Roles(chat[1]) = <<"user", "assistant">>
    /\ call.record[1]["instruct"] = " a\n"

\* C2: for a model type that starts with none of the known prefixes the
\* constructor ends in an exception, which is the unsupported-model error
\* whenever the registry was asked, and neither a strategy nor a Tuner exists.
C2_UnknownTypeFails ==
    (pc # "new" /\ ~KnownFamily(model_type[1])) =>
        /\ pc = "failed"
        /\ raised # "none"
        /\ "get_model_config" \in reached => raised = "Exception: Unsupported model type"
        /\ model_config = None
        /\ tuner = NoTuner

C2_Witness ==
    /\ pc = "failed"
    /\ model_type = Some("xqwen")
    /\ "get_model_config" \in reached
    /\ raised = "Exception: Unsupported model type"

\* C3: without an accelerator a constructed Tuner has bf16 set, fp16 not set
\* and the optimizer adamw_8bit, whatever the family and enable_deepspeed.
C3_NoAcceleratorPrecision ==
    (Constructed /\ ~cuda_available) =>
        /\ tuner.bf16 = TRUE
        /\ tuner.fp16 = FALSE
        /\ tuner.optim = "adamw_8bit"

C3_Witness ==
    /\ pc = "ready"
    /\ ~cuda_available
    /\ enable_deepspeed = Some(TRUE)
    /\ model_config = Some("CohereModel")
    /\ tuner.bf16

\* C4: with an accelerator of capability 8 or more and enable_deepspeed
\* False, the Tuner has bf16 set, fp16 not set and no deepspeed block, and so
\* has every configuration that prepare_args returns.
C4_HighCapabilityNoDeepspeed ==
    (Constructed /\ cuda_available /\ capability >= 8 /\ enable_deepspeed = Some(FALSE)) =>
        /\ tuner.bf16 = TRUE
        /\ tuner.fp16 = FALSE
        /\ tuner.deepspeed = None
        /\ args # None =>
            /\ args[1].bf16 = TRUE
            /\ args[1].fp16 = FALSE
            /\ args[1].deepspeed = None

C4_Witness ==
    /\ pc = "returned"
    /\ call.op = "sft"
    /\ cuda_available
    /\ capability = 8
    /\ enable_deepspeed = Some(FALSE)
    /\ args # None
    /\ args[1].bf16

\* C5: the deepspeed block is present only when enable_deepspeed is true and
\* an accelerator is available; with the block the optimizer is adamw_torch
\* and device_map is None, without it adamw_8bit and "auto"; and every
\* configuration that prepare_args returns carries the same block and
\* optimizer.
C5_OffloadBlock ==
    Constructed =>
        /\ tuner.deepspeed # None => (enable_deepspeed = Some(TRUE) /\ cuda_available)
        /\ tuner.deepspeed # None => (tuner.optim = "adamw_torch" /\ tuner.device_map = None)
        /\ tuner.deepspeed = None => (tuner.optim = "adamw_8bit" /\ tuner.device_map = Some("auto"))
        /\ args # None =>
            /\ args[1].deepspeed = tuner.deepspeed
            /\ args[1].optim = tuner.optim

C5_Witness ==
    /\ pc = "returned"
    /\ call.op = "dpo"
    /\ cuda_available
    /\ enable_deepspeed = Some(TRUE)
    /\ args # None
    /\ args[1].deepspeed = Some(get_deepspeed_config)
    /\ args[1].optim = "adamw_torch"

\* C6: with an accelerator of capability 8 or more the attention hint is
\* "eager" for a model type that starts with gemma and "flash_attention_2"
\* for every other known family; otherwise there is no hint.
C6_AttentionHint ==
    Constructed =>
        IF cuda_available /\ capability >= 8
        THEN /\ startswith(model_type[1], "gemma") => tuner.attn_implementation = Some("eager")
             /\ ~startswith(model_type[1], "gemma") =>
                    tuner.attn_implementation = Some("flash_attention_2")
        ELSE tuner.attn_implementation = None

C6_Witness ==
    /\ pc = "ready"
    /\ cuda_available
    /\ capability >= 8
    /\ model_type = Some("gemma3_text")
    /\ tuner.attn_implementation = Some("eager")

\* C7: when CUDA_VISIBLE_DEVICES is not set, the construction of a Tuner for
\* a known family still gets to the family dispatch and to the precision,
\* optimizer and offload settings.
C7_CoreLogicRunsWithoutVisibleDevices ==
    (pc # "new" /\ visible_devices = None /\ KnownFamily(model_type[1])) =>
        /\ {"get_model_config", "hyperparameters"} \subseteq reached
        /\ pc # "failed"

\* C8: the LoraConfig built in an sft or dpo call has the lora_dropout that
\* the call was given.
C8_DropoutIsPassedOn ==
    (pc = "returned" /\ call.op \in {"sft", "dpo"} /\ lora_config # None) =>
        lora_config[1].lora_dropout = call.lora_dropout

\* C9: an sft call on a dataset of instruction records or of pre-formatted
\* text records (with the language-modeling collator) gets to prepare_args,
\* with the scheduler "linear" for the former and "constant" for the latter.
C9_SchedulerAssignedForEveryRecordShape ==
    (pc = "returned" /\ call.op = "sft" /\ ~call.comp_only
        /\ call.columns \in {{"instruct", "input", "output"}, {"text"}}) =>
        /\ args # None
        /\ "text" \in call.columns => args[1].lr_scheduler_type = "constant"
        /\ "instruct" \in call.columns => args[1].lr_scheduler_type = "linear"

\* C10: an sft call on a dataset of instruction records raises nothing and
\* ends in train and save_model on one trainer, with the completion-only
\* collator when comp_only is set and the language-modeling one otherwise.
C10_BothCollatorsTrainAndSave ==
    (pc = "returned" /\ call.op = "sft" /\ {"instruct", "input", "output"} \subseteq call.columns) =>
        /\ raised = "none"
        /\ trainer = <<"Trainer", "train", "save_model">>
        /\ data_collator = Some(IF call.comp_only THEN "DataCollatorForCompletionOnlyLM"
                                                  ELSE "DataCollatorForLanguageModeling")

====
